---- MODULE Spec2Model ----
(***************************************************************************)
(* Model of real-estate-banking-app.py: PropertyService and                *)
(* TransactionService running on separate sqlite3 connections (one per     *)
(* request, get_db) against one database file.                             *)
(*                                                                         *)
(* sqlite3 is used with the module's default isolation level: a SELECT     *)
(* runs outside any transaction and reads the committed database; the      *)
(* first INSERT/UPDATE on a connection opens a transaction and takes the   *)
(* database write lock; the writes stay private to the connection until    *)
(* commit() and are discarded when the connection is closed without one.   *)
(* A second connection that tries to write while the lock is held gets     *)
(* sqlite3.OperationalError ("database is locked").                        *)
(***************************************************************************)
EXTENDS Integers, Sequences, FiniteSets, TLC

\* ---- bounds ----
NumCallers == 2
MaxProps == 1
MaxTx == 2

Callers == 1..NumCallers

\* ---- request values ----
None == "None"
Absent == "absent"
Users == {"u1", "u2"}
Owners == {None, "u1"}
Currencies == {"USD", "EUR"}
Countries == {"", "NG"}
Prices == {0, 100}
Amounts == {100}
RequestStatuses == {Absent, "available", "sold"}

\* property_data dictionaries sent to create_property
PropertyData ==
    [title : {Absent, "t"}, country : {"NG"}, price : {100},
     currency : Currencies, status : RequestStatuses, owner_id : Owners]

\* arguments of create_transaction
ReserveArgs ==
    [property_id : 1..MaxProps, buyer_id : Users,
     amount : Amounts, currency : Currencies]

\* the requests of the concurrent specification: every listing by one owner
\* and every purchase in one currency
ConcurrentPropertyData ==
    {d \in PropertyData : d.currency = "USD" /\ d.owner_id = "u1"}
ConcurrentReserveArgs == {a \in ReserveArgs : a.currency = "USD"}

\* Optional[str] / Optional[float] query parameters: <<>> is None, <<v>> a value
CountryFilters == {<<>>} \cup {<<x>> : x \in Countries}
PriceFilters == {<<>>} \cup {<<x>> : x \in Prices}
Filters == [country : CountryFilters, max_price : PriceFilters]

VARIABLES
    properties,     \* committed rows of table properties, in rowid order
    transactions,   \* committed rows of table transactions, in rowid order
    txn,            \* txn[c]: the open sqlite transaction of connection c
    pc,             \* pc[c]: position of caller c inside its service call
    local,          \* local[c]: local variables of the running call
    result          \* the response of the call that finished last

vars == <<properties, transactions, txn, pc, local, result>>

NoTxn == [open |-> FALSE]
NoLocal == [op |-> "none"]
NoResult == [op |-> "none", outcome |-> "none"]

\* the connection holding the database write lock, if any
WriteLocked == \E c \in Callers : txn[c].open

\* what connection c reads: its own uncommitted writes, else the committed rows
ReaderView(c) ==
    IF txn[c].open
    THEN [properties |-> txn[c].properties, transactions |-> txn[c].transactions]
    ELSE [properties |-> properties, transactions |-> transactions]

\* cursor.execute of the first INSERT/UPDATE: implicit BEGIN
Begin(c) ==
    IF txn[c].open THEN txn[c]
    ELSE [open |-> TRUE, properties |-> properties, transactions |-> transactions]

Init ==
    /\ properties = <<>>
    /\ transactions = <<>>
    /\ txn = [c \in Callers |-> NoTxn]
    /\ pc = [c \in Callers |-> "idle"]
    /\ local = [c \in Callers |-> NoLocal]
    /\ result = NoResult

\* a call that raises or returns: the request ends, get_db closes the connection
Finish(c, r) ==
    /\ pc' = [pc EXCEPT ![c] = "idle"]
    /\ local' = [local EXCEPT ![c] = NoLocal]
    /\ result' = r

Error(op, name) == [op |-> op, outcome |-> name]

\* ---------------------------------------------------------------------------
\* PropertyService.list_properties

TruthyStr(opt) == opt # <<>> /\ opt[1] # ""
TruthyNum(opt) == opt # <<>> /\ opt[1] # 0

\* the WHERE clause the code builds
Matches(row, f) ==
    /\ TruthyStr(f.country) => row.country = f.country[1]
    /\ TruthyNum(f.max_price) => row.price <= f.max_price[1]

RECURSIVE SelectRows(_, _)
SelectRows(rows, f) ==
    IF rows = <<>> THEN <<>>
    ELSE IF Matches(Head(rows), f)
         THEN <<Head(rows)>> \o SelectRows(Tail(rows), f)
         ELSE SelectRows(Tail(rows), f)

list_properties(c, f) ==
    /\ pc[c] = "idle"
    /\ Finish(c, [op |-> "list_properties", outcome |-> "Listing",
                  rows |-> SelectRows(ReaderView(c).properties, f)])
    /\ UNCHANGED <<properties, transactions, txn>>

\* ---------------------------------------------------------------------------
\* PropertyService.create_property

\* the row the INSERT writes
PropertyRow(id, d) ==
    [id |-> id, title |-> d.title, country |-> d.country, price |-> d.price,
     currency |-> d.currency, status |-> "available", owner_id |-> d.owner_id]

\* building the parameter tuple: property_data['title'] on a missing key
create_property_KeyError(c, d) ==
    /\ pc[c] = "idle"
    /\ d.title = Absent
    /\ Finish(c, Error("create_property", "KeyError"))
    /\ UNCHANGED <<properties, transactions, txn>>

create_property_insert(c, d) ==
    /\ pc[c] = "idle"
    /\ d.title # Absent
    /\ ~WriteLocked
    /\ Len(properties) < MaxProps
    /\ LET id == Len(properties) + 1
           t == Begin(c)
       IN /\ txn' = [txn EXCEPT ![c] =
                        [t EXCEPT !.properties = Append(@, PropertyRow(id, d))]]
          /\ local' = [local EXCEPT ![c] =
                        [op |-> "create_property", id |-> id, data |-> d]]
    /\ pc' = [pc EXCEPT ![c] = "cp_inserted"]
    /\ UNCHANGED <<properties, transactions, result>>

\* the INSERT while another connection holds the write lock
create_property_locked(c, d) ==
    /\ pc[c] = "idle"
    /\ d.title # Absent
    /\ WriteLocked
    /\ Finish(c, Error("create_property", "Locked"))
    /\ UNCHANGED <<properties, transactions, txn>>

\* Property(id=property_id, **property_data): status is a required field of
\* the model and comes from the request dictionary (as does created_at,
\* whose absence fails the same way)
ReturnedProperty(id, d) ==
    IF d.status = Absent
    THEN Error("create_property", "ValidationError")
    ELSE [op |-> "create_property", outcome |-> "Property",
          id |-> id, status |-> d.status]

\* db.commit() followed by the return statement
create_property_commit(c) ==
    /\ pc[c] = "cp_inserted"
    /\ properties' = txn[c].properties
    /\ transactions' = txn[c].transactions
    /\ txn' = [txn EXCEPT ![c] = NoTxn]
    /\ Finish(c, ReturnedProperty(local[c].id, local[c].data))

\* ---------------------------------------------------------------------------
\* TransactionService.create_transaction

IsAvailableUnchecked(status) == TRUE

IsAvailable(status) == status = "available"

\* SELECT owner_id, status ... fetchone(), and the two checks on the row
create_transaction_select(c, a) ==
    /\ pc[c] = "idle"
    /\ LET rows == ReaderView(c).properties
       IN IF a.property_id \notin DOMAIN rows
          THEN /\ Finish(c, Error("create_transaction", "NotFound"))
               /\ UNCHANGED <<properties, transactions, txn>>
          ELSE IF ~IsAvailable(rows[a.property_id].status)
          THEN /\ Finish(c, Error("create_transaction", "PropertyUnavailable"))
               /\ UNCHANGED <<properties, transactions, txn>>
          ELSE /\ pc' = [pc EXCEPT ![c] = "ct_selected"]
               /\ local' = [local EXCEPT ![c] =
                     [op |-> "create_transaction", args |-> a,
                      owner_id |-> rows[a.property_id].owner_id,
                      status |-> rows[a.property_id].status]]
               /\ UNCHANGED <<properties, transactions, txn, result>>

TransactionRowSellerIsBuyer(id, a, owner_id) ==
    [id |-> id, property_id |-> a.property_id, buyer_id |-> a.buyer_id,
     seller_id |-> a.buyer_id, amount |-> a.amount, currency |-> a.currency,
     status |-> "pending"]

\* the row the INSERT writes
TransactionRow(id, a, owner_id) ==
    [id |-> id, property_id |-> a.property_id, buyer_id |-> a.buyer_id,
     seller_id |-> owner_id, amount |-> a.amount, currency |-> a.currency,
     status |-> "pending"]

\* the INSERT on a connection in autocommit mode: visible at once
create_transaction_insert_autocommit(c) ==
    /\ pc[c] = "ct_selected"
    /\ ~WriteLocked
    /\ Len(transactions) < MaxTx
    /\ LET id == Len(transactions) + 1
           row == [id |-> id, property_id |-> local[c].args.property_id,
                   buyer_id |-> local[c].args.buyer_id,
                   seller_id |-> local[c].owner_id,
                   amount |-> local[c].args.amount,
                   currency |-> local[c].args.currency, status |-> "pending"]
       IN /\ transactions' = Append(transactions, row)
          /\ txn' = [txn EXCEPT ![c] =
                [open |-> TRUE, properties |-> properties,
                 transactions |-> Append(transactions, row)]]
          /\ local' = [local EXCEPT ![c] = [@ EXCEPT !.status = "inserted"]]
    /\ pc' = [pc EXCEPT ![c] = "ct_inserted"]
    /\ UNCHANGED <<properties, result>>

create_transaction_insert(c) ==
    /\ pc[c] = "ct_selected"
    /\ ~WriteLocked
    /\ Len(transactions) < MaxTx
    /\ LET id == Len(transactions) + 1
           t == Begin(c)
       IN /\ txn' = [txn EXCEPT ![c] = [t EXCEPT !.transactions =
                        Append(@, TransactionRow(id, local[c].args, local[c].owner_id))]]
          /\ local' = [local EXCEPT ![c] = [@ EXCEPT !.status = "inserted"]]
    /\ pc' = [pc EXCEPT ![c] = "ct_inserted"]
    /\ UNCHANGED <<properties, transactions, result>>

\* the INSERT while another connection holds the write lock
create_transaction_locked(c) ==
    /\ pc[c] = "ct_selected"
    /\ WriteLocked
    /\ Finish(c, Error("create_transaction", "Locked"))
    /\ UNCHANGED <<properties, transactions, txn>>

ReservedStatusSold == "sold"

\* the status the UPDATE sets
ReservedStatus == "under_contract"

\* UPDATE properties SET status = ... WHERE id = ?
UpdateStatus(rows, id) ==
    [i \in DOMAIN rows |->
        IF rows[i].id = id THEN [rows[i] EXCEPT !.status = ReservedStatus]
        ELSE rows[i]]

create_transaction_update(c) ==
    /\ pc[c] = "ct_inserted"
    /\ txn' = [txn EXCEPT ![c] = [@ EXCEPT !.properties =
                  UpdateStatus(@, local[c].args.property_id)]]
    /\ pc' = [pc EXCEPT ![c] = "ct_updated"]
    /\ UNCHANGED <<properties, transactions, local, result>>

\* db.commit() followed by the return statement
create_transaction_commit(c) ==
    /\ pc[c] = "ct_updated"
    /\ properties' = txn[c].properties
    /\ transactions' = txn[c].transactions
    /\ txn' = [txn EXCEPT ![c] = NoTxn]
    /\ Finish(c, [op |-> "create_transaction", outcome |-> "Transaction",
                  id |-> Len(txn[c].transactions)])

\* ---------------------------------------------------------------------------
\* get_db: the request is abandoned or the process dies inside a call; the
\* connection is closed without commit and sqlite rolls its writes back

get_db_close(c) ==
    /\ pc[c] # "idle"
    /\ txn' = [txn EXCEPT ![c] = NoTxn]
    /\ Finish(c, Error(local[c].op, "Abandoned"))
    /\ UNCHANGED <<properties, transactions>>

\* ---------------------------------------------------------------------------

Next ==
    \E c \in Callers :
        \/ \E d \in ConcurrentPropertyData : create_property_KeyError(c, d)
        \/ \E d \in ConcurrentPropertyData : create_property_insert(c, d)
        \/ \E d \in ConcurrentPropertyData : create_property_locked(c, d)
        \/ create_property_commit(c)
        \/ \E a \in ConcurrentReserveArgs : create_transaction_select(c, a)
        \/ create_transaction_insert(c)
        \/ create_transaction_locked(c)
        \/ create_transaction_update(c)
        \/ create_transaction_commit(c)
        \/ get_db_close(c)

Spec == Init /\ [][Next]_vars

\* ---------------------------------------------------------------------------
\* one caller at a time, every request value

NextSeq ==
    \/ \E d \in PropertyData : create_property_KeyError(1, d)
    \/ \E d \in PropertyData : create_property_insert(1, d)
    \/ create_property_commit(1)
    \/ \E a \in ReserveArgs : create_transaction_select(1, a)
    \/ create_transaction_insert(1)
    \/ create_transaction_update(1)
    \/ create_transaction_commit(1)
    \/ get_db_close(1)

SpecSeq == Init /\ [][NextSeq]_vars

\* ---------------------------------------------------------------------------
\* list_properties over every stored table of at most MaxRows rows

MaxRows == 2

StoredRows(n) ==
    {r \in [1..n -> [id : 1..n, title : {"t"}, country : Countries, price : Prices,
                     currency : {"USD"}, status : {"available", "under_contract"},
                     owner_id : {None}]] :
        \A i \in 1..n : r[i].id = i}

InitList ==
    /\ properties \in UNION {StoredRows(n) : n \in 0..MaxRows}
    /\ transactions = <<>>
    /\ txn = [c \in Callers |-> NoTxn]
    /\ pc = [c \in Callers |-> "idle"]
    /\ local = [c \in Callers |-> NoLocal]
    /\ result = NoResult

NextList == \E c \in Callers, f \in Filters : list_properties(c, f)

SpecList == InitList /\ [][NextList]_vars

\* ===========================================================================
\* Properties

NonTerminal == {"pending", "confirmed"}

ActiveTransactions(p) ==
    {i \in DOMAIN transactions :
        transactions[i].property_id = p /\ transactions[i].status \in NonTerminal}

\* C1: in every state of the store each property is referenced by at most
\* one transaction whose status is pending or confirmed.
C1_AtMostOneActive ==
    \A p \in DOMAIN properties : Cardinality(ActiveTransactions(p)) <= 1

\* C2: of the reserve calls on one available property only one returns a
\* Transaction: no call returns a Transaction for a property for which another
\* call has already returned one.
C2_OneWinner ==
    [][\A c \in Callers :
         (pc[c] = "ct_updated" /\ pc'[c] = "idle" /\ result'.outcome = "Transaction")
         => \A j \in DOMAIN transactions :
               transactions[j].property_id # transactions'[result'.id].property_id]_vars

\* C3: a reserve call on a property id that is not stored fails with NotFound,
\* one on a stored property whose status is not available fails with
\* PropertyUnavailable; neither creates a transaction row nor changes a
\* property row, and only a call that read status available goes on to write.
C3_UnavailableRejected ==
    [][\A c \in Callers :
         /\ \A a \in ConcurrentReserveArgs :
              (pc[c] = "idle" /\ create_transaction_select(c, a)) =>
                 /\ a.property_id \notin DOMAIN properties =>
                       /\ pc'[c] = "idle"
                       /\ result' = Error("create_transaction", "NotFound")
                       /\ UNCHANGED <<properties, transactions, txn>>
                 /\ (/\ a.property_id \in DOMAIN properties
                     /\ properties[a.property_id].status # "available") =>
                       /\ pc'[c] = "idle"
                       /\ result' = Error("create_transaction", "PropertyUnavailable")
                       /\ UNCHANGED <<properties, transactions, txn>>
         /\ (pc[c] = "idle" /\ pc'[c] = "ct_selected") =>
              /\ local'[c].args.property_id \in DOMAIN properties
              /\ properties[local'[c].args.property_id].status = "available"]_vars

C3_Witness ==
    /\ result = Error("create_transaction", "PropertyUnavailable")
    /\ \E p \in DOMAIN properties : properties[p].status = "under_contract"

\* a reader's view holds a transaction for a property exactly when the
\* property has left status available
BothOrNeither(v) ==
    \A p \in DOMAIN v.properties :
        (v.properties[p].status # "available")
            <=> (\E i \in DOMAIN v.transactions : v.transactions[i].property_id = p)

\* C4: the INSERT of the transaction and the UPDATE of the property status
\* are atomic: what any connection other than the writer reads contains both
\* writes or neither, also after the writing call was abandoned.
C4_AtomicReserve ==
    \A c \in Callers : ~txn[c].open => BothOrNeither(ReaderView(c))

C4_Witness ==
    \E c, d \in Callers :
        /\ c # d
        /\ pc[c] = "ct_inserted"
        /\ ~txn[d].open
        /\ ReaderView(d).transactions # ReaderView(c).transactions

\* the status changes the data model permits
PermittedChanges ==
    {<<"available", "reserved">>, <<"reserved", "under_contract">>,
     <<"under_contract", "sold">>}
        \cup {<<s, "withdrawn">> : s \in {"available", "reserved", "under_contract"}}

C6_SellerIsOwner ==
    [][/\ \A c \in Callers :
            (pc[c] = "idle" /\ pc'[c] = "ct_selected") =>
               local'[c].owner_id = properties[local'[c].args.property_id].owner_id
       /\ \A i \in DOMAIN transactions' :
            IF i \in DOMAIN transactions
            THEN /\ transactions'[i].property_id = transactions[i].property_id
                 /\ transactions'[i].seller_id = transactions[i].seller_id
            ELSE /\ transactions'[i].status = "pending"
                 /\ \E c \in Callers :
                       /\ pc[c] = "ct_updated"
                       /\ pc'[c] = "idle"
                       /\ transactions'[i].property_id = local[c].args.property_id
                       /\ transactions'[i].seller_id = local[c].owner_id
       /\ DOMAIN transactions \subseteq DOMAIN transactions']_vars

C6_Witness ==
    /\ result = Error("create_transaction", "PropertyUnavailable")
    /\ \E i \in DOMAIN transactions :
          transactions[i].seller_id # transactions[i].buyer_id

\* C7: every stored transaction has the currency of the property it
\* references (a reserve call in another currency is rejected).
C7_CurrencyMatches ==
    \A i \in DOMAIN transactions :
        transactions[i].currency = properties[transactions[i].property_id].currency

\* C8: no stored transaction has buyer equal to seller.
C8_BuyerNotSeller ==
    \A i \in DOMAIN transactions :
        transactions[i].buyer_id # transactions[i].seller_id

\* the filter as documented: a supplied parameter always restricts
Wanted(row, f) ==
    /\ f.country # <<>> => row.country = f.country[1]
    /\ f.max_price # <<>> => row.price <= f.max_price[1]

\* C9: list_properties returns exactly the stored properties whose country
\* equals the supplied country and whose price is at most the supplied
\* maximum, and changes no stored record.
C9_ListMatchesFilter ==
    [][\A c \in Callers, f \in Filters :
         list_properties(c, f) =>
            /\ Len(result'.rows) <= Len(properties)
            /\ \A p \in DOMAIN properties :
                  Wanted(properties[p], f)
                     <=> (\E k \in DOMAIN result'.rows : result'.rows[k] = properties[p])
            /\ UNCHANGED <<properties, transactions>>]_vars

\* C10: a property stored by create_property has status available, the
\* returned Property has the status of the stored row, and a create_property
\* call that ends in an error has stored no row.
C10_CreateProperty ==
    [][\A c \in Callers :
         (pc[c] \in {"idle", "cp_inserted"} /\ pc'[c] = "idle"
             /\ result'.op = "create_property") =>
            /\ \A p \in DOMAIN properties' \ DOMAIN properties :
                  properties'[p].status = "available"
            /\ result'.outcome = "Property" =>
                  result'.status = properties'[result'.id].status
            /\ result'.outcome # "Property" => properties' = properties]_vars
====
